---------------------------- MODULE Spec2Model ----------------------------
(***************************************************************************)
(* A state-machine model of the terminal raycaster in src/src/main.rs.     *)
(*                                                                         *)
(* The program computes in f64.  The model computes in fixed point:        *)
(*   - lengths (positions, displacements, ray distances) in 1/Unit cell;   *)
(*   - angles in 1/Unit radian;                                            *)
(*   - sines and cosines in 1/TrigUnit.                                    *)
(* Every product is rounded to the nearest representable value, as an f64  *)
(* product is.                                                             *)
(***************************************************************************)
EXTENDS Integers, Sequences, FiniteSets

\* ---------------------------------------------------------------- numbers

\* Resolution of a length and of an angle: 0.01.
Unit == 100

\* Resolution of a sine or cosine: 0.0001.
TrigUnit == 10000

Abs(n) == IF n < 0 THEN -n ELSE n

\* n / d rounded to the nearest integer, ties away from zero (d > 0).
RoundDiv(n, d) ==
  IF n >= 0 THEN (2 * n + d) \div (2 * d) ELSE -((2 * (-n) + d) \div (2 * d))

\* f64::floor followed by `as i32`: the cell index of a length.
Floor(v) == v \div Unit

\* The product of a sine or cosine and a length.
TrigMul(t, v) == RoundDiv(t * v, TrigUnit)

\* ---------------------------------------------------------------- constants

MAP_WIDTH == 24

MAP_HEIGHT == 24

\* 0.66
FOV == 66

\* 0.05
MOVE_SPEED == 5

\* 0.03
ROTATION_SPEED == 3

\* 2.0 * std::f64::consts::PI = 6.28...
TWO_PI == 628

\* The zero-epsilon 0.0001 of cast_ray, in 1/TrigUnit.
EPSILON == 1

\* The sentinel step 1e30 of cast_ray: 100000 cells, far beyond any distance
\* a ray travels inside the map.
SENTINEL == 10000000

\* b'0' and b'1'
Byte0 == 48

Byte1 == 49

\* str::as_bytes of a row of MAP written with the digits 0 and 1.
Bytes(digits) == [i \in DOMAIN digits |-> Byte0 + digits[i]]

\* "111111111111111111111111"
RowFull == Bytes(<<1,1,1,1,1,1,1,1,1,1,1,1,1,1,1,1,1,1,1,1,1,1,1,1>>)

\* "100000000011000000000001"
RowPillar == Bytes(<<1,0,0,0,0,0,0,0,0,0,1,1,0,0,0,0,0,0,0,0,0,0,0,1>>)

\* "100000000000000000000001"
RowOpen == Bytes(<<1,0,0,0,0,0,0,0,0,0,0,0,0,0,0,0,0,0,0,0,0,0,0,1>>)

\* MAP: 1 = wall, 0 = empty space.  MAP[y + 1] is the source's MAP[y].
MAP ==
  <<RowFull,
    RowPillar, RowPillar, RowPillar,
    RowOpen, RowOpen, RowOpen, RowOpen, RowOpen, RowOpen, RowOpen,
    RowOpen, RowOpen, RowOpen, RowOpen, RowOpen, RowOpen, RowOpen,
    RowOpen, RowOpen, RowOpen, RowOpen, RowOpen,
    RowFull>>

\* ---------------------------------------------------------------- sin, cos, atan

\* 10000 * sin(x / 100) for x = 0 .. 157, the first quarter turn.
SinTable ==
  <<
       0, 100, 200, 300, 400, 500, 600, 699, 799, 899, 998, 1098,
       1197, 1296, 1395, 1494, 1593, 1692, 1790, 1889, 1987, 2085, 2182, 2280,
       2377, 2474, 2571, 2667, 2764, 2860, 2955, 3051, 3146, 3240, 3335, 3429,
       3523, 3616, 3709, 3802, 3894, 3986, 4078, 4169, 4259, 4350, 4439, 4529,
       4618, 4706, 4794, 4882, 4969, 5055, 5141, 5227, 5312, 5396, 5480, 5564,
       5646, 5729, 5810, 5891, 5972, 6052, 6131, 6210, 6288, 6365, 6442, 6518,
       6594, 6669, 6743, 6816, 6889, 6961, 7033, 7104, 7174, 7243, 7311, 7379,
       7446, 7513, 7578, 7643, 7707, 7771, 7833, 7895, 7956, 8016, 8076, 8134,
       8192, 8249, 8305, 8360, 8415, 8468, 8521, 8573, 8624, 8674, 8724, 8772,
       8820, 8866, 8912, 8957, 9001, 9044, 9086, 9128, 9168, 9208, 9246, 9284,
       9320, 9356, 9391, 9425, 9458, 9490, 9521, 9551, 9580, 9608, 9636, 9662,
       9687, 9711, 9735, 9757, 9779, 9799, 9819, 9837, 9854, 9871, 9887, 9901,
       9915, 9927, 9939, 9949, 9959, 9967, 9975, 9982, 9987, 9992, 9995, 9998,
       9999, 10000 >>

QuarterTurn == TWO_PI \div 4

HalfTurn == TWO_PI \div 2

\* f64::sin of an angle, any sign and size.
Sin(a) ==
  LET r == a % TWO_PI
  IN  IF r <= QuarterTurn THEN SinTable[r + 1]
      ELSE IF r <= HalfTurn THEN SinTable[HalfTurn - r + 1]
      ELSE IF r <= HalfTurn + QuarterTurn THEN -SinTable[r - HalfTurn + 1]
      ELSE -SinTable[TWO_PI - r + 1]

\* f64::cos of an angle.
Cos(a) == Sin(a + QuarterTurn)

\* f64::atan of z (in 1/TrigUnit, |z| <= 1): the series z - z^3/3 + z^5/5 - ...
\* evaluated by Horner's rule, in 1/Unit radian.
Atan(z) ==
  LET a  == Abs(z)
      q  == (a * a) \div TrigUnit
      t6 == TrigUnit \div 11
      t5 == TrigUnit \div 9 - (q * t6) \div TrigUnit
      t4 == TrigUnit \div 7 - (q * t5) \div TrigUnit
      t3 == TrigUnit \div 5 - (q * t4) \div TrigUnit
      t2 == TrigUnit \div 3 - (q * t3) \div TrigUnit
      t1 == TrigUnit - (q * t2) \div TrigUnit
      r  == RoundDiv(a * t1, TrigUnit * (TrigUnit \div Unit))
  IN  IF z < 0 THEN -r ELSE r

\* ---------------------------------------------------------------- map

\* A variant of get_map_value that finds empty space around the map.
get_map_value_open(x, y) ==
  IF x < MAP_WIDTH /\ y < MAP_HEIGHT THEN MAP[y + 1][x + 1] - Byte0 ELSE 0

\* Raycaster::get_map_value, on usize coordinates (x >= 0, y >= 0).
get_map_value(x, y) ==
  IF x < MAP_WIDTH /\ y < MAP_HEIGHT THEN MAP[y + 1][x + 1] - Byte0 ELSE 1

\* ---------------------------------------------------------------- player

\* Raycaster::new: the player, and the cached screen size.
NewPlayer == [x |-> 2 * Unit, y |-> 2 * Unit, angle |-> 0]

NewLastSize == <<0, 0>>

\* The key codes the program tells apart; "x" is any other character key.
KeyCodes == {"w", "s", "a", "d", "Up", "Down", "Left", "Right", "q", "Esc", "x"}

NoMove == [move_x |-> 0, move_y |-> 0, rotate |-> 0]

\* One arm of the match in update: what a key adds to move_x, move_y, rotate.
ApplyKey(acc, key, angle) ==
  LET c == TrigMul(Cos(angle), MOVE_SPEED)
      s == TrigMul(Sin(angle), MOVE_SPEED)
  IN  CASE key \in {"w", "Up"} ->
             [acc EXCEPT !.move_x = @ + c, !.move_y = @ + s]
        [] key \in {"s", "Down"} ->
             [acc EXCEPT !.move_x = @ - c, !.move_y = @ - s]
        [] key = "a" ->
             [acc EXCEPT !.move_x = @ + s, !.move_y = @ - c]
        [] key = "d" ->
             [acc EXCEPT !.move_x = @ - s, !.move_y = @ + c]
        [] key = "Left" ->
             [acc EXCEPT !.rotate = @ - ROTATION_SPEED]
        [] key = "Right" ->
             [acc EXCEPT !.rotate = @ + ROTATION_SPEED]
        [] OTHER -> acc

\* The loop `for key in keys` of update over keys[lo..hi], entered with the
\* sums acc.  The keys are taken in order; the range is halved, and the sums
\* of the first half are looked at before the second half starts, only to
\* keep the evaluation shallow.
RECURSIVE SumIntents(_, _, _, _, _)
SumIntents(keys, lo, hi, angle, acc) ==
  IF lo > hi \/ acc.rotate \notin Int THEN acc
  ELSE IF lo = hi THEN ApplyKey(acc, keys[lo], angle)
  ELSE LET mid  == (lo + hi) \div 2
           left == SumIntents(keys, lo, mid, angle, acc)
       IN  SumIntents(keys, mid + 1, hi, angle, left)

\* A variant of Collide that commits inside the map whatever the cell holds.
CollideNoWall(p, mv) ==
  LET new_x == p.x + mv.move_x
      new_y == p.y + mv.move_y
  IN  IF /\ new_x >= 0
         /\ new_x < MAP_WIDTH * Unit
         /\ new_y >= 0
         /\ new_y < MAP_HEIGHT * Unit
      THEN [p EXCEPT !.x = new_x, !.y = new_y]
      ELSE p

\* One axis of a sliding collision: the coordinate moves if the cell it
\* moves into, the other coordinate kept, is Empty.
Free(x, y) ==
  /\ x >= 0
  /\ x < MAP_WIDTH * Unit
  /\ y >= 0
  /\ y < MAP_HEIGHT * Unit
  /\ get_map_value(Floor(x), Floor(y)) = 0

\* A variant of Collide that slides along walls: each axis is tested and
\* committed on its own.
CollideSliding(p, mv) ==
  LET new_x == p.x + mv.move_x
      new_y == p.y + mv.move_y
      slid  == IF Free(new_x, p.y) THEN [p EXCEPT !.x = new_x] ELSE p
  IN  IF Free(slid.x, new_y) THEN [slid EXCEPT !.y = new_y] ELSE slid

\* The collision detection of update: the position after the candidate move.
Collide(p, mv) ==
  LET new_x == p.x + mv.move_x
      new_y == p.y + mv.move_y
  IN  IF /\ new_x >= 0
         /\ new_x < MAP_WIDTH * Unit
         /\ new_y >= 0
         /\ new_y < MAP_HEIGHT * Unit
      THEN IF get_map_value(Floor(new_x), Floor(new_y)) = 0
           THEN [p EXCEPT !.x = new_x, !.y = new_y]
           ELSE p
      ELSE p

\* while self.player.angle < 0.0 { self.player.angle += 2 pi }
RECURSIVE WhileNegative(_)
WhileNegative(a) == IF a < 0 THEN WhileNegative(a + TWO_PI) ELSE a

\* while self.player.angle >= 2 pi { self.player.angle -= 2 pi }
RECURSIVE WhileFullTurn(_)
WhileFullTurn(a) == IF a >= TWO_PI THEN WhileFullTurn(a - TWO_PI) ELSE a

\* A variant of Normalize with `if` for `while`: one full turn at most is
\* added or taken off.
NormalizeOnce(a) ==
  LET up == IF a < 0 THEN a + TWO_PI ELSE a
  IN  IF up >= TWO_PI THEN up - TWO_PI ELSE up

\* Normalize angle.
Normalize(a) == WhileFullTurn(WhileNegative(a))

\* A variant of update that turns first: the movement intents are summed
\* with the heading the call ends with.
update_turn_first(p, keys) ==
  LET turn   == SumIntents(keys, 1, Len(keys), p.angle, NoMove).rotate
      turned == [p EXCEPT !.angle = Normalize(p.angle + turn)]
      mv     == SumIntents(keys, 1, Len(keys), turned.angle, NoMove)
  IN  Collide(turned, mv)

\* Raycaster::update.
update(p, keys) ==
  LET mv    == SumIntents(keys, 1, Len(keys), p.angle, NoMove)
      moved == Collide(p, mv)
  IN  [moved EXCEPT !.angle = Normalize(p.angle + mv.rotate)]

\* ---------------------------------------------------------------- cast_ray

\* cast_ray up to the loop: the deltas, the steps, the start cell and the
\* first side distances.
RayStart(p, ray_angle) ==
  LET sin     == Sin(ray_angle)
      cos     == Cos(ray_angle)
      delta_x == IF Abs(cos) < EPSILON THEN SENTINEL
                 ELSE Abs(RoundDiv(Unit * TrigUnit, Abs(cos)))
      delta_y == IF Abs(sin) < EPSILON THEN SENTINEL
                 ELSE Abs(RoundDiv(Unit * TrigUnit, Abs(sin)))
      map_x   == Floor(p.x)
      map_y   == Floor(p.y)
  IN  [delta_x     |-> delta_x,
       delta_y     |-> delta_y,
       step_x      |-> IF cos < 0 THEN -1 ELSE 1,
       step_y      |-> IF sin < 0 THEN -1 ELSE 1,
       map_x       |-> map_x,
       map_y       |-> map_y,
       side_dist_x |-> IF cos < 0
                       THEN RoundDiv((p.x - map_x * Unit) * delta_x, Unit)
                       ELSE RoundDiv((map_x * Unit + Unit - p.x) * delta_x, Unit),
       side_dist_y |-> IF sin < 0
                       THEN RoundDiv((p.y - map_y * Unit) * delta_y, Unit)
                       ELSE RoundDiv((map_y * Unit + Unit - p.y) * delta_y, Unit),
       hit         |-> FALSE,
       side        |-> FALSE,
       broke       |-> FALSE]

\* The test `map_x < 0 || map_x >= MAP_WIDTH || map_y < 0 || map_y >= MAP_HEIGHT`.
OutOfExtent(map_x, map_y) ==
  map_x < 0 \/ map_x >= MAP_WIDTH \/ map_y < 0 \/ map_y >= MAP_HEIGHT

\* The advance of one iteration of `while !hit`: one cell along x or along y.
RayAdvance(r) ==
  IF r.side_dist_x < r.side_dist_y
  THEN [r EXCEPT !.side_dist_x = @ + r.delta_x, !.map_x = @ + r.step_x, !.side = FALSE]
  ELSE [r EXCEPT !.side_dist_y = @ + r.delta_y, !.map_y = @ + r.step_y, !.side = TRUE]

\* A variant of RayStep without the wall test: the ray runs on until it
\* leaves the map.
RayStepNoWall(r) ==
  LET n == RayAdvance(r)
  IN  IF OutOfExtent(n.map_x, n.map_y) THEN [n EXCEPT !.broke = TRUE] ELSE n

\* One iteration of `while !hit`: the advance, the break out of the map, the
\* wall test.
RayStep(r) ==
  LET n == RayAdvance(r)
  IN  IF OutOfExtent(n.map_x, n.map_y) THEN [n EXCEPT !.broke = TRUE]
      ELSE IF get_map_value(n.map_x, n.map_y) = 1 THEN [n EXCEPT !.hit = TRUE]
      ELSE n

\* The loop has ended.
RayEnded(r) == r.hit \/ r.broke

\* A variant of RayResult with the two sides exchanged.
RayResultOtherSide(r) ==
  IF r.side THEN r.side_dist_x - r.delta_x ELSE r.side_dist_y - r.delta_y

\* perp_wall_dist.
RayResult(r) ==
  IF ~r.side THEN r.side_dist_x - r.delta_x ELSE r.side_dist_y - r.delta_y

RECURSIVE RayRun(_)
RayRun(r) == IF RayEnded(r) THEN r ELSE RayRun(RayStep(r))

\* Raycaster::cast_ray.
cast_ray(p, ray_angle) == RayResult(RayRun(RayStart(p, ray_angle)))

\* ---------------------------------------------------------------- render

\* The screen sizes the terminal takes: (columns, rows).
Sizes == {<<2, 1>>, <<3, 2>>}

\* The ray angle of screen column x of a screen screen_width wide.
RayAngle(p, x, screen_width) ==
  LET camera_x == RoundDiv(2 * x * TrigUnit, screen_width) - TrigUnit
  IN  p.angle + Atan(RoundDiv(camera_x * FOV, Unit))

\* The loop `for x in 0..screen_width` of render, as far as the rays go: the
\* perpendicular wall distance of every column.
Columns(p, size) == [x \in 1..size[1] |-> cast_ray(p, RayAngle(p, x - 1, size[1]))]

\* The test `screen_width != self.last_width || screen_height != self.last_height`.
\* A variant that holds at every frame.
SizeChangedAlways(size, last) == TRUE

SizeChanged(size, last) == size[1] # last[1] \/ size[2] # last[2]

\* ---------------------------------------------------------------- main

KeyPress(code) == [type |-> "Key", code |-> code, kind |-> "Press"]

KeyRelease(code) == [type |-> "Key", code |-> code, kind |-> "Release"]

ResizeEvent == [type |-> "Resize", code |-> "", kind |-> ""]

\* n presses of one key.
Run(code, n) == [i \in 1..n |-> KeyPress(code)]

\* A variant of ReadEvent in which Esc is no quit key.
ReadEventQOnly(st, e) ==
  IF e.type = "Key" /\ e.kind = "Press"
  THEN IF e.code = "q"
       THEN [st EXCEPT !.quit = TRUE, !.read = @ + 1]
       ELSE [st EXCEPT !.keys = Append(@, e.code), !.read = @ + 1]
  ELSE [st EXCEPT !.read = @ + 1]

\* One iteration of the loop `while event::poll(..)?` of main, on the event
\* e: a quit key ends the loop, another pressed key is pushed, anything else
\* is dropped.  st is the keys pushed, whether a quit key was read, and how
\* many events were read.
ReadEvent(st, e) ==
  IF e.type = "Key" /\ e.kind = "Press"
  THEN IF e.code \in {"q", "Esc"}
       THEN [st EXCEPT !.quit = TRUE, !.read = @ + 1]
       ELSE [st EXCEPT !.keys = Append(@, e.code), !.read = @ + 1]
  ELSE [st EXCEPT !.read = @ + 1]

\* The loop `while event::poll(..)?` over the queued events evs[lo..hi], with
\* no failure.  The events are taken in order, until a quit key is read; the
\* range is halved only to keep the evaluation shallow.
RECURSIVE ReadEvents(_, _, _, _)
ReadEvents(evs, lo, hi, st) ==
  IF lo > hi \/ st.quit THEN st
  ELSE IF lo = hi THEN ReadEvent(st, evs[lo])
  ELSE LET mid  == (lo + hi) \div 2
           left == ReadEvents(evs, lo, mid, st)
       IN  ReadEvents(evs, mid + 1, hi, left)

NothingRead == [keys |-> <<>>, quit |-> FALSE, read |-> 0]

\* How many batches of input the user types.
MaxBatches == 2

\* What the user types between two frames: every key alone, events that are
\* no key press, opposing and diagonal pairs, a quit key among other keys, and
\* long runs of one key: one cell back to the wall (20) and into it (21), past
\* a quarter turn (60), to the pillar eight cells ahead (160), past two full
\* turns and out of the map (450).
Batches ==
  {<<KeyPress(c)>> : c \in KeyCodes}
    \cup {<<KeyRelease("w")>>, <<ResizeEvent>>}
    \cup {<<KeyPress("w"), KeyPress("s")>>, <<KeyPress("a"), KeyPress("d")>>,
          <<KeyPress("w"), KeyPress("a")>>, <<KeyPress("Up"), KeyPress("d")>>}
    \cup {<<KeyPress("w"), KeyPress("q"), KeyPress("s")>>}
    \cup {Run("s", 20), Run("s", 21), Run("Left", 60),
          Run("w", 160), Run("w", 450), Run("Left", 450)}
    \cup {Run("a", 21) \o Run("w", 1),
          Run("s", 20) \o Run("Left", 60),
          Run("Right", 450) \o Run("s", 21)}

VARIABLES
  pc,            \* where main is
  result,        \* what main returned: "" while it runs, "Ok", or the failed call
  term,          \* the terminal: raw mode, alternate screen, cursor, size
  pending,       \* the key and resize events queued for the program
  arrived,       \* how many batches of input have arrived
  player,        \* Raycaster.player
  last_size,     \* Raycaster.last_width, Raycaster.last_height
  keys_pressed,  \* keys_pressed of the loop iteration
  old,           \* history: the player when the loop iteration began
  wrote,         \* what the latest render call wrote to stdout
  frame,         \* the wall distance per column of the latest render call
  ray,           \* a call of cast_ray, iteration by iteration
  probe          \* a map lookup and what it returned

vars == <<pc, result, term, pending, arrived, player, last_size, keys_pressed,
          old, wrote, frame, ray, probe>>

\* No call of cast_ray is under way, no lookup has been made.
NoRay == [at |-> "idle"]

NoProbe == [at |-> "none"]

raycaster == <<player, last_size, keys_pressed, old, wrote, frame>>

Init ==
  /\ pc = "raw"
  /\ result = ""
  /\ term \in [raw : {FALSE}, alt : {FALSE}, hidden : {FALSE}, size : Sizes]
  /\ pending = <<>>
  /\ arrived = 0
  /\ player = NewPlayer
  /\ last_size = NewLastSize
  /\ keys_pressed = <<>>
  /\ old = NewPlayer
  /\ wrote = <<>>
  /\ frame = <<>>
  /\ ray = NoRay
  /\ probe = NoProbe

\* main returns.
Return(r) == pc' = "exit" /\ result' = r

\* terminal::enable_raw_mode()?
EnableRawMode ==
  /\ pc = "raw"
  /\ \/ /\ term' = [term EXCEPT !.raw = TRUE]
        /\ pc' = "enter"
        /\ UNCHANGED result
     \/ /\ Return("Err enable_raw_mode")
        /\ UNCHANGED term
  /\ UNCHANGED <<ray, probe, pending, arrived, raycaster>>

\* execute!(stdout, EnterAlternateScreen, Hide)?  A failure leaves none, one
\* or both of the commands in effect.
EnterScreen ==
  /\ pc = "enter"
  /\ \/ /\ term' = [term EXCEPT !.alt = TRUE, !.hidden = TRUE]
        /\ pc' = "drain"
        /\ UNCHANGED result
     \/ /\ Return("Err execute enter")
        /\ \E done \in 0..2 :
             term' = [term EXCEPT !.alt = (done >= 1), !.hidden = (done >= 2)]
  /\ UNCHANGED <<ray, probe, pending, arrived, raycaster>>

\* The input phase of one loop iteration: keys_pressed = Vec::new() and the
\* loop `while event::poll(..)?`, which reads the queued events until the
\* queue is empty or a quit key is read.  The first poll or the first read
\* may fail.
DrainInput ==
  /\ pc = "drain"
  /\ \/ LET r == ReadEvents(pending, 1, Len(pending), NothingRead)
        IN  /\ keys_pressed' = r.keys
            /\ pending' = SubSeq(pending, r.read + 1, Len(pending))
            /\ pc' = IF r.quit THEN "quit" ELSE "update"
            /\ UNCHANGED result
     \/ /\ Return("Err poll")
        /\ UNCHANGED <<pending, keys_pressed>>
     \/ /\ pending # <<>>
        /\ Return("Err read")
        /\ UNCHANGED <<pending, keys_pressed>>
  /\ UNCHANGED <<ray, probe, term, arrived, player, last_size, old, wrote, frame>>

\* The quit arm: execute!(stdout, Show, LeaveAlternateScreen)?;
\* terminal::disable_raw_mode()?; return Ok(()).
Quit ==
  /\ pc = "quit"
  /\ \/ /\ term' = [term EXCEPT !.hidden = FALSE, !.alt = FALSE, !.raw = FALSE]
        /\ Return("Ok")
     \/ /\ Return("Err execute leave")
        /\ \E done \in 0..2 :
             term' = [term EXCEPT !.hidden = IF done >= 1 THEN FALSE ELSE @,
                                  !.alt = IF done >= 2 THEN FALSE ELSE @]
     \/ /\ Return("Err disable_raw_mode")
        /\ term' = [term EXCEPT !.hidden = FALSE, !.alt = FALSE]
  /\ UNCHANGED <<ray, probe, pending, arrived, raycaster>>

\* raycaster.update(&keys_pressed)
Update ==
  /\ pc = "update"
  /\ player' = update(player, keys_pressed)
  /\ pc' = "render"
  /\ UNCHANGED <<ray, probe, result, term, pending, arrived, last_size, keys_pressed, old,
                 wrote, frame>>

\* raycaster.render(&mut stdout)?  The size query, the clear, the write or the
\* flush may fail.
Render ==
  /\ pc = "render"
  /\ LET size    == term.size
         changed == SizeChanged(size, last_size)
         clear   == IF changed THEN <<"Clear">> ELSE <<>>
     IN  \/ /\ Return("Err size")
            /\ wrote' = <<>>
            /\ UNCHANGED <<last_size, frame>>
         \/ /\ changed
            /\ Return("Err execute clear")
            /\ wrote' = clear
            /\ UNCHANGED <<last_size, frame>>
         \/ /\ last_size' = size
            /\ frame' = Columns(player, size)
            /\ \/ /\ wrote' = clear \o <<"Home", "Frame">>
                  /\ pc' = "sleep"
                  /\ UNCHANGED result
               \/ /\ wrote' = clear
                  /\ Return("Err write")
               \/ /\ wrote' = clear \o <<"Home", "Frame">>
                  /\ Return("Err flush")
  /\ UNCHANGED <<ray, probe, term, pending, arrived, player, keys_pressed, old>>

\* Frame rate limiting, and the end of the loop body, where keys_pressed is
\* dropped.
Sleep ==
  /\ pc = "sleep"
  /\ pc' = "drain"
  /\ keys_pressed' = <<>>
  /\ old' = player
  /\ UNCHANGED <<ray, probe, result, term, pending, arrived, player, last_size, wrote, frame>>

\* The user types a batch of keys while the program is between two input
\* phases.
Type ==
  /\ pc \in {"enter", "sleep"}
  /\ pending = <<>>
  /\ arrived < MaxBatches
  /\ \E b \in Batches : pending' = b
  /\ arrived' = arrived + 1
  /\ UNCHANGED <<ray, probe, pc, result, term, raycaster>>

\* The user resizes the terminal.
Resize ==
  /\ pc = "sleep"
  /\ \E s \in Sizes \ {term.size} : term' = [term EXCEPT !.size = s]
  /\ UNCHANGED <<ray, probe, pc, result, pending, arrived, raycaster>>

Next ==
  \/ EnableRawMode
  \/ EnterScreen
  \/ DrainInput
  \/ Quit
  \/ Update
  \/ Render
  \/ Sleep
  \/ Type
  \/ Resize

Spec == Init /\ [][Next]_vars

\* ---------------------------------------------------------------- cast_ray, step by step

\* Player positions to cast from: on and beside the cell boundaries next to
\* the outer wall and to the pillar, and in the open.
OriginXs == {100, 101, 150, 200, 999, 1200, 1201, 1750, 2299}

OriginYs == {100, 101, 200, 399, 400, 1150, 2299}

\* A player update can leave: inside the map, in an Empty cell, heading in
\* [0, 2 pi).
LegalPlayers ==
  {p \in [x : OriginXs, y : OriginYs, angle : {0}] :
     get_map_value(Floor(p.x), Floor(p.y)) = 0}

\* The ray angles tried: the four axis directions, and one in every eleven
\* hundredths of a radian from below zero to beyond a full turn.
RayAngles == {0, 157, 314, 471} \cup {a \in (-66)..(TWO_PI + 66) : a % 11 = 0}

InitCast ==
  /\ pc = "render"
  /\ result = ""
  /\ term = [raw |-> TRUE, alt |-> TRUE, hidden |-> TRUE, size |-> <<2, 1>>]
  /\ pending = <<>>
  /\ arrived = 0
  /\ player \in LegalPlayers
  /\ last_size = NewLastSize
  /\ keys_pressed = <<>>
  /\ old = player
  /\ wrote = <<>>
  /\ frame = <<>>
  /\ ray = NoRay
  /\ probe = NoProbe

main == <<pc, result, term, pending, arrived, player, last_size, keys_pressed,
          old, wrote, frame>>

\* cast_ray is called: everything before `while !hit`.
CastBegin ==
  /\ ray.at = "idle"
  /\ \E a \in RayAngles :
       ray' = [at |-> "loop", ray_angle |-> a, r |-> RayStart(player, a), iterations |-> 0]
  /\ UNCHANGED <<main, probe>>

\* One iteration of `while !hit`.
CastIterate ==
  /\ ray.at = "loop"
  /\ ~RayEnded(ray.r)
  /\ ray' = [ray EXCEPT !.r = RayStep(@), !.iterations = @ + 1]
  /\ UNCHANGED <<main, probe>>

\* The loop has ended: cast_ray returns perp_wall_dist.
CastReturn ==
  /\ ray.at = "loop"
  /\ RayEnded(ray.r)
  /\ ray' = [at |-> "done", ray_angle |-> ray.ray_angle, r |-> ray.r,
             iterations |-> ray.iterations, perp_wall_dist |-> RayResult(ray.r)]
  /\ UNCHANGED <<main, probe>>

NextCast == CastBegin \/ CastIterate \/ CastReturn

SpecCast == InitCast /\ [][NextCast]_vars

\* A call of cast_ray that has begun goes on: the loop is not suspended.
FairSpecCast == SpecCast /\ WF_vars(CastIterate) /\ WF_vars(CastReturn)

\* ---------------------------------------------------------------- lookups

\* The lookup of the cell (map_x, map_y) of a ray, signed: out of the map the
\* ray stops as at a wall, in the map get_map_value decides.
lookup(map_x, map_y) ==
  IF OutOfExtent(map_x, map_y) THEN 1 ELSE get_map_value(map_x, map_y)

\* The greatest usize the model can hold, and the least i32.
Huge == 2147483647

\* Cell coordinates to look up: around both ends of the map, at the pillar,
\* and far outside.
Coordinates == {-Huge, -25, -1, 0, 1, 3, 4, 9, 10, 11, 12, 22, 23, 24, 25, Huge}

InitLookup ==
  /\ pc = "render"
  /\ result = ""
  /\ term = [raw |-> TRUE, alt |-> TRUE, hidden |-> TRUE, size |-> <<2, 1>>]
  /\ pending = <<>>
  /\ arrived = 0
  /\ player = NewPlayer
  /\ last_size = NewLastSize
  /\ keys_pressed = <<>>
  /\ old = player
  /\ wrote = <<>>
  /\ frame = <<>>
  /\ ray = NoRay
  /\ probe = NoProbe

\* get_map_value is called with usize coordinates.
LookupUsize ==
  /\ \E x, y \in Coordinates :
       /\ x >= 0
       /\ y >= 0
       /\ probe' = [at |-> "get_map_value", x |-> x, y |-> y, value |-> get_map_value(x, y)]
  /\ UNCHANGED <<main, ray>>

\* The ray loop looks at a cell: i32 coordinates.
LookupCell ==
  /\ \E x, y \in Coordinates :
       probe' = [at |-> "cast_ray", x |-> x, y |-> y, value |-> lookup(x, y)]
  /\ UNCHANGED <<main, ray>>

NextLookup == LookupUsize \/ LookupCell

SpecLookup == InitLookup /\ [][NextLookup]_vars


\* ---------------------------------------------------------------- properties

\* The cells that hold a wall, as the map is drawn: the outer ring, and the
\* pillar two cells wide and three cells high near the top.
WallCell(cx, cy) ==
  \/ cx = 0
  \/ cx = MAP_WIDTH - 1
  \/ cy = 0
  \/ cy = MAP_HEIGHT - 1
  \/ (cx \in {10, 11} /\ cy \in 1..3)

\* The position (x, y) is inside the map.
InMap(x, y) == x >= 0 /\ x < MAP_WIDTH * Unit /\ y >= 0 /\ y < MAP_HEIGHT * Unit

\* The position (x, y) is inside the map and in an Empty cell.
EmptyAt(x, y) == InMap(x, y) /\ ~WallCell(Floor(x), Floor(y))

Range(seq) == {seq[i] : i \in DOMAIN seq}

Count(seq, elems) == Cardinality({i \in DOMAIN seq : seq[i] \in elems})

\* An update call has just returned: old is the player it was called on,
\* keys_pressed its intent list, player what it left.
Updated == pc = "render"

\* The candidate position of the update call that has just returned, as
\* update sums it.
Candidate ==
  LET mv == SumIntents(keys_pressed, 1, Len(keys_pressed), old.angle, NoMove)
  IN  [x |-> old.x + mv.move_x, y |-> old.y + mv.move_y]

\* C1: in every reachable state the player's position lies inside the map
\* bounds and the cell (floor(x), floor(y)) is Empty.
C1_PlayerInEmptyCell == EmptyAt(player.x, player.y)

\* An update with many intents in one frame has moved the player.
C1_Witness ==
  /\ Updated
  /\ Len(keys_pressed) >= 20
  /\ (player.x # old.x \/ player.y # old.y)

\* C2: the heading lies in [0, 2 pi) after every update call, whatever the
\* rotation intents of the call and whether or not its move was blocked.
C2_HeadingInRange == player.angle >= 0 /\ player.angle < TWO_PI

\* An update has turned the player by more than two full turns while its move
\* was blocked.
C2_Witness ==
  /\ Updated
  /\ Count(keys_pressed, {"Right"}) * ROTATION_SPEED > 2 * TWO_PI
  /\ "s" \in Range(keys_pressed)
  /\ ~EmptyAt(Candidate.x, Candidate.y)
  /\ player.x = old.x
  /\ player.y = old.y
  /\ player.angle # old.angle

\* The terminal is in normal mode.
TerminalNormal == ~term.raw /\ ~term.alt /\ ~term.hidden

\* main has run the quit arm, which restores the terminal: it returned Ok, or
\* the error of one of the two restoring calls.
RestoreAttempted == result \in {"Ok", "Err execute leave", "Err disable_raw_mode"}

\* The failures of the terminal calls made in the loop, outside the quit arm.
LoopErrors ==
  {"Err poll", "Err read", "Err size", "Err execute clear", "Err write", "Err flush"}

\* C3: on every exit path of the program the terminal is in normal mode or
\* its restoration has been attempted.
C3_RestoredOnEveryExit == pc = "exit" => (TerminalNormal \/ RestoreAttempted)

\* C4: the position after update is the old position or the old position
\* plus the whole candidate displacement on both axes, and it is the old
\* position on both axes when the candidate position is outside the map or in
\* a Wall cell.
C4_AtomicCommit ==
  Updated =>
    /\ \/ (player.x = old.x /\ player.y = old.y)
       \/ (player.x = Candidate.x /\ player.y = Candidate.y)
    /\ ~EmptyAt(Candidate.x, Candidate.y) => (player.x = old.x /\ player.y = old.y)

\* A diagonal move has been blocked that was free along x alone.
C4_Witness ==
  /\ Updated
  /\ Candidate.x # old.x
  /\ Candidate.y # old.y
  /\ ~EmptyAt(Candidate.x, Candidate.y)
  /\ EmptyAt(Candidate.x, old.y)
  /\ player.x = old.x
  /\ player.y = old.y

\* The ray state r is the state n one cell earlier.
OneCellOn(r, n) ==
  \/ (n.map_x = r.map_x + r.step_x /\ n.map_y = r.map_y)
  \/ (n.map_x = r.map_x /\ n.map_y = r.map_y + r.step_y)

\* One iteration of the ray loop, from the ray state r to n, the count-th of
\* the call: it starts from a loop that has not ended, moves one cell along
\* one axis in the direction fixed at the start, ends the loop exactly at a
\* Wall cell or out of the map, and is not beyond the number of cells a ray
\* can cross.
IterationOK(r, n, count) ==
  /\ ~RayEnded(r)
  /\ OneCellOn(r, n)
  /\ n.step_x = r.step_x
  /\ n.step_y = r.step_y
  /\ RayEnded(n) <=> (OutOfExtent(n.map_x, n.map_y) \/ WallCell(n.map_x, n.map_y))
  /\ count <= MAP_WIDTH + MAP_HEIGHT

\* C5: from every legal player position and for every ray angle the ray loop
\* terminates: every iteration advances exactly one of map_x, map_y by one
\* cell in a fixed direction, the loop stops at the first Wall cell or when it
\* leaves the map, and every call that has entered the loop returns.
C5_RayLoopTerminates ==
  /\ [][(ray.at = "loop" /\ ray'.at = "loop")
          => IterationOK(ray.r, ray'.r, ray'.iterations)]_vars
  /\ (ray.at = "loop") ~> (ray.at = "done")

\* A ray has crossed more cells than the map is wide and has hit a wall.
C5_Witness ==
  /\ ray.at = "done"
  /\ ray.iterations > MAP_WIDTH
  /\ ray.r.hit

\* |cos| and |sin| of the angle are both well above the zero-epsilon: a
\* hundred times it.
WellAbove(a) == Abs(Cos(a)) >= 100 * EPSILON /\ Abs(Sin(a)) >= 100 * EPSILON

\* The diagonal extent of the map, sqrt(MAP_WIDTH^2 + MAP_HEIGHT^2), rounded
\* down.
MapDiagonal ==
  CHOOSE d \in 0..((MAP_WIDTH + MAP_HEIGHT) * Unit) :
    /\ d * d <= (MAP_WIDTH * MAP_WIDTH + MAP_HEIGHT * MAP_HEIGHT) * Unit * Unit
    /\ (d + 1) * (d + 1) > (MAP_WIDTH * MAP_WIDTH + MAP_HEIGHT * MAP_HEIGHT) * Unit * Unit

\* The ray started on the cell boundary it crossed last, towards lower
\* coordinates: the wall it hit is the cell the player's cell touches there.
OnFacingBoundary ==
  \/ (~ray.r.side /\ ray.r.step_x = -1 /\ player.x % Unit = 0)
  \/ (ray.r.side /\ ray.r.step_y = -1 /\ player.y % Unit = 0)

\* C6 as stated: for every angle well above the zero-epsilon, cast_ray from
\* any legal player position, on a cell boundary or not, returns a strictly
\* positive distance less than the map's diagonal extent.
C6_PositiveDistance ==
  (ray.at = "done" /\ WellAbove(ray.ray_angle)) =>
    (ray.perp_wall_dist > 0 /\ ray.perp_wall_dist < MapDiagonal)

\* C6 amended: the distance is not negative and less than the map's diagonal
\* extent, and it is zero only from a position on a cell boundary whose far
\* side is the wall the ray hits.
C6_DistanceInRange ==
  (ray.at = "done" /\ WellAbove(ray.ray_angle)) =>
    /\ ray.perp_wall_dist >= 0
    /\ ray.perp_wall_dist < MapDiagonal
    /\ ray.perp_wall_dist = 0 => OnFacingBoundary

\* A ray cast from a position on a cell boundary has returned a positive
\* distance.
C6_Witness ==
  /\ ray.at = "done"
  /\ WellAbove(ray.ray_angle)
  /\ player.x % Unit = 0
  /\ ray.r.step_x = -1
  /\ ray.perp_wall_dist > 0

\* A render call returns, having queried the screen size.
Rendered == pc = "render" /\ pc' # "render" /\ result' # "Err size"

\* C7 as stated: a render issues the full clear if and only if the queried
\* size differs from the cached one, and after every render the cached size
\* is the size queried.
C7_ClearIffResized ==
  [][Rendered =>
       /\ ("Clear" \in Range(wrote')) <=> (term.size # last_size)
       /\ last_size' = term.size]_vars

\* C7 amended: a render issues the full clear if and only if the queried size
\* differs from the cached one; the cached size is the size queried after
\* every render but one whose clear fails, which leaves the cache as it was.
C7_ClearIffResizedUnlessClearFails ==
  [][Rendered =>
       /\ ("Clear" \in Range(wrote')) <=> (term.size # last_size)
       /\ last_size' = IF result' = "Err execute clear" THEN last_size ELSE term.size]_vars

\* A render at the size of the render before it has written a frame and no
\* full clear.
C7_Witness ==
  /\ pc = "sleep"
  /\ wrote = <<"Home", "Frame">>
  /\ last_size = term.size

\* The events queued hold a press of a quit key.
QuitQueued == \E i \in DOMAIN pending : pending[i] \in {KeyPress("q"), KeyPress("Esc")}

\* The loop is running / has been left.
Running == pc \in {"drain", "update", "render", "sleep"}

Terminated == pc \in {"quit", "exit"}

\* Nothing of the raycaster changes: no update, no render.
Still == player' = player /\ last_size' = last_size /\ wrote' = wrote /\ frame' = frame

\* C8 as stated: the loop driver leaves Running only on a quit key press.
C8_OnlyQuitTerminates == [][(Running /\ Terminated') => pc' = "quit"]_vars

\* C8 amended: the loop driver leaves Running on a quit key press or on a
\* failed terminal call, and on nothing else; an input phase that finds a quit
\* key queued and does not fail leaves through the quit arm, and once the loop
\* is left there is no update and no render.
C8_QuitOrErrorTerminates ==
  [][/\ (Running /\ Terminated') =>
          \/ (pc = "drain" /\ pc' = "quit" /\ QuitQueued)
          \/ (pc' = "exit" /\ result' \in LoopErrors)
     /\ (pc = "drain" /\ QuitQueued /\ result' = "") => pc' = "quit"
     /\ Terminated => (Terminated' /\ Still)]_vars

\* main has returned Ok on a quit key read ahead of another key, which stays
\* unread.
C8_Witness ==
  /\ pc = "exit"
  /\ result = "Ok"
  /\ pending = <<KeyPress("s")>>

\* How many steps forward, and to the left, the intents of the update call
\* that has just returned add up to.
Forward == Count(keys_pressed, {"w", "Up"}) - Count(keys_pressed, {"s", "Down"})

Leftward == Count(keys_pressed, {"a"}) - Count(keys_pressed, {"d"})

\* The vector sum of the movement intents, along the heading the call began
\* with.
IntentSum ==
  LET c == TrigMul(Cos(old.angle), MOVE_SPEED)
      s == TrigMul(Sin(old.angle), MOVE_SPEED)
  IN  [x |-> Forward * c + Leftward * s, y |-> Forward * s - Leftward * c]

\* C9: update moves the player by the vector sum of all movement intents of
\* the frame, taken along the heading the call began with, if the position
\* that sum leads to is free, and not at all otherwise; opposing intents
\* cancel.
C9_IntentsSum ==
  Updated =>
    IF EmptyAt(old.x + IntentSum.x, old.y + IntentSum.y)
    THEN player.x = old.x + IntentSum.x /\ player.y = old.y + IntentSum.y
    ELSE player.x = old.x /\ player.y = old.y

\* Forward and strafe intents in one frame have moved the player along both
\* axes, in a call that began with a heading off the x axis.
C9_Witness ==
  /\ Updated
  /\ Forward # 0
  /\ Leftward # 0
  /\ old.angle # 0
  /\ player.x # old.x
  /\ player.y # old.y

\* C10: a map lookup returns Wall for every cell coordinate outside the map,
\* however far, and the map's cell value inside.
C10_LookupOutsideIsWall ==
  probe.at # "none" =>
    probe.value = IF OutOfExtent(probe.x, probe.y) \/ WallCell(probe.x, probe.y)
                  THEN 1 ELSE 0

\* get_map_value has been asked for a cell far beyond the map.
C10_Witness ==
  /\ probe.at = "get_map_value"
  /\ probe.x = Huge
  /\ probe.value = 1

=============================================================================
